---------------------------- MODULE Spec2Model ----------------------------
(***************************************************************************)
(* A model of the BESA voice assistant client: the Session Orchestrator    *)
(* (App: connect / disconnect / the live channel's callbacks), the         *)
(* AudioManager (capture pipeline and playback scheduler) and the tool     *)
(* dispatcher (executeTool).                                               *)
(*                                                                         *)
(* JavaScript runs one handler at a time; a handler is suspended only at   *)
(* an await.  Every action below is one handler, or the part of an async   *)
(* handler between two awaits.  The live channel (the SDK's                *)
(* ai.live.connect) is the environment: it opens, delivers messages,       *)
(* reports errors, closes, and resolves or rejects the promise that        *)
(* connect awaits; the code keeps a sessionPromise because its callbacks   *)
(* may run before that promise is resolved.                                *)
(*                                                                         *)
(* Time (AudioContext.currentTime, buffer durations) is counted in sample  *)
(* frames of the output rate; an inbound audio chunk is modelled by the    *)
(* number of bytes its base64 payload decodes to.                          *)
(***************************************************************************)
EXTENDS Integers, Sequences, FiniteSets, TLC

\* ------------------------------------------------------------------ bounds
MaxAttempts == 2
MaxMsgs == 2
MaxBlocks == 2
MaxBytes == 4
MaxChunks == 3
MaxTime == 3
MaxCloses == 2
MaxTools == 3      \* executeTool calls made on the dispatcher alone
MaxPolls == 3      \* status requests of one video operation
MaxSamples == 2    \* samples of one encoded buffer

\* ------------------------------------------------------- program constants
Null == 0
DefaultSensitivity == 6
FullScale == 32768           \* 0x8000, the factor of negative samples and the decoder's divisor
PositiveScale == 32767       \* 0x7FFF, the factor of the other samples
MaxFileChars == 50000        \* the length read_active_file cuts the content to

Attempts == 1..MaxAttempts

States == {"DISCONNECTED", "CONNECTING", "CONNECTED", "ERROR"}

ToolNames == {"get_current_time", "generate_video", "no_such_tool"}

\* the capabilities of toolsDeclaration, each a case of executeTool's switch
DeclaredTools ==
  {"open_website", "read_active_file", "consult_logic_core", "generate_image",
   "generate_video", "search_web", "find_places", "get_current_time"}

\* capabilities whose body awaits a remote request, which may fail
FallibleTools == {"generate_video"}

VARIABLES
  connectionState,   \* React state connectionState
  lastLog,           \* the text of the last entry the last handler appended with addLog
  sessionRef,        \* sessionRef.current: an attempt's session, or Null
  audioManagerRef,   \* audioManagerRef.current: a manager, or Null
  apiKey,            \* whether process.env.API_KEY is set
  activeFile,        \* whether activeFileRef.current is set
  nAttempts,         \* connect() invocations so far; attempt a creates manager a
  pc,                \* per attempt: where connect() stands
  chan,              \* per attempt: the remote channel
  opened,            \* per attempt: whether its onopen has fired
  thenQueue,         \* per attempt: sends waiting on sessionPromise
  outbound,          \* per attempt: what was sent on its session, in order
  mic,               \* per attempt: its onopen's initializeInput call
  micMgr,            \* per attempt: the manager that call was made on
  procAttached,      \* attempts whose ScriptProcessor still has its onaudioprocess
  tracksLive,        \* attempts whose microphone stream has unstopped tracks
  am,                \* per manager: the AudioManager's fields
  msgs,              \* the onmessage invocations so far
  nCalls,            \* tool call ids handed out by the remote side
  nBlocks,           \* capture blocks delivered so far
  now,               \* AudioContext.currentTime
  settings,          \* React state settings.wakeWordSensitivity, in tenths
  captured,          \* per attempt: the sensitivity its connect() closed over
  lastBlock,         \* what the last onaudioprocess call measured and did
  tool,              \* one executeTool call run on its own
  codec              \* one buffer taken through encode, frame and decode

vars == <<connectionState, lastLog, sessionRef, audioManagerRef, apiKey,
          activeFile, nAttempts, pc, chan, opened, thenQueue, outbound, mic, micMgr,
          procAttached, tracksLive, am, msgs, nCalls, nBlocks, now,
          settings, captured, lastBlock, tool, codec>>

\* the noise gate's setting and what it last did
gateVars == <<settings, captured, lastBlock>>

\* the tool dispatcher and the audio codec run on their own
benchVars == <<tool, codec>>

orchVars == <<connectionState, lastLog, sessionRef, audioManagerRef, apiKey,
              activeFile, nAttempts, pc, chan, opened, thenQueue, outbound, mic, micMgr,
              msgs, nCalls>>

Max(x, y) == IF x >= y THEN x ELSE y

\* ------------------------------------------------------------ AudioManager

\* the fields of a constructed AudioManager
NewAudioManager ==
  [created |-> TRUE, isClosed |-> FALSE, processor |-> Null, stream |-> Null,
   nextStartTime |-> 0, audioSources |-> {}, decoding |-> <<>>, scheduled |-> <<>>,
   stopped |-> {}, dropped |-> 0, closes |-> 0]

NoAudioManager == [NewAudioManager EXCEPT !.created = FALSE]

\* a decoder that ignores a trailing odd byte instead of failing
DecodedFramesTruncating(bytes) == bytes \div 2

\* decodeAudioData: the frame count of the buffer, or 0 when it throws
\* (new Int16Array over a buffer of odd byte length is a RangeError)
DecodedFrames(bytes) == IF bytes % 2 = 1 THEN 0 ELSE bytes \div 2

\* a scheduler that starts every node at the cursor, behind the clock or not
StartAtCursor(t, cursor) == cursor

\* a scheduler whose cursor forgets where the node started
CursorFromDuration(start, duration) == duration

\* playAudioChunk's startTime
StartTime(t, cursor) == Max(t, cursor)

\* playAudioChunk's new nextStartTime
NextCursor(start, duration) == start + duration

\* a close() that stops the live nodes but forgets to clear the set
ClosedKeepingSources(r) ==
  [r EXCEPT !.isClosed = TRUE, !.processor = Null, !.stream = Null,
            !.stopped = @ \cup r.audioSources,
            !.nextStartTime = 0, !.closes = @ + 1]

\* AudioManager.close applied to the fields of one manager
ClosedManager(r) ==
  [r EXCEPT !.isClosed = TRUE, !.processor = Null, !.stream = Null,
            !.stopped = @ \cup r.audioSources, !.audioSources = {},
            !.nextStartTime = 0, !.closes = @ + 1]

\* playAudioChunk up to its await: the decode of the payload is pending
PlayStarted(r, chunk) == [r EXCEPT !.decoding = Append(@, chunk)]

\* playAudioChunk after its await, for the oldest pending decode
PlayFinished(r, t) ==
  LET chunk == Head(r.decoding)
      frames == DecodedFrames(chunk.bytes)
      start == StartTime(t, r.nextStartTime)
      node == Len(r.scheduled) + 1
  IN IF frames = 0
       THEN [r EXCEPT !.decoding = Tail(@), !.dropped = @ + 1]
       ELSE [r EXCEPT !.decoding = Tail(@),
                      !.nextStartTime = NextCursor(start, frames),
                      !.audioSources = @ \cup {node},
                      !.scheduled = Append(@, [start |-> start, duration |-> frames,
                                               at |-> t, cursor |-> r.nextStartTime,
                                               msg |-> chunk.msg, epoch |-> r.closes])]

\* ---------------------------------------------------------- Tool Dispatcher

\* whether the body of capability `name` raises inside executeTool's try block
CapabilityRaises(name, fails) == fails /\ name \in FallibleTools

\* a dispatcher that answers an unknown name with an error
CapabilityStrict(name) ==
  CASE name = "get_current_time" -> [kind |-> "result", text |-> "Current time"]
    [] name = "generate_video" -> [kind |-> "result", text |-> "Video generated"]
    [] OTHER -> [kind |-> "error", text |-> "Unknown tool"]

\* what the body of capability `name` returns when nothing raises
Capability(name) ==
  CASE name = "get_current_time" -> [kind |-> "result", text |-> "Current time"]
    [] name = "generate_video" -> [kind |-> "result", text |-> "Video generated"]
    [] OTHER -> [kind |-> "result", text |-> "Function not found"]

\* executeTool's catch block: what the call ends with when the body raised
\* a dispatcher whose catch clause lets the failure through to the caller
ToolRethrow ==
  [threw |-> TRUE, value |-> [kind |-> "result", text |-> "Error executing tool"]]

\* the catch clause of executeTool: it returns a normal result object
ToolCatch ==
  [threw |-> FALSE, value |-> [kind |-> "result", text |-> "Error executing tool"]]

\* how a call of executeTool ends: by returning `value`, or by throwing
executeTool(name, fails) ==
  IF CapabilityRaises(name, fails)
    THEN ToolCatch
    ELSE [threw |-> FALSE, value |-> Capability(name)]

\* a handler that answers every call under the id of the first call of the message
ToolResponseFirstId(calls, i, fails) ==
  [type |-> "tool", id |-> calls[1].id, name |-> calls[1].name,
   response |-> executeTool(calls[i].name, fails).value]

\* the functionResponses entry onmessage sends for call number i of `calls`:
\* the try branch after executeTool returned, the catch branch after it threw
ToolResponse(calls, i, fails) ==
  LET fc == calls[i]
      r == executeTool(fc.name, fails)
  IN IF r.threw
       THEN [type |-> "tool", id |-> fc.id, name |-> fc.name,
             response |-> [kind |-> "error", text |-> "Tool Error"]]
       ELSE [type |-> "tool", id |-> fc.id, name |-> fc.name, response |-> r.value]

\* ------------------------------------------------------ Session Orchestrator

\* session.close() seen from the channel
SessionClose(c) == IF c = "open" THEN "closing" ELSE c

\* a promise that runs the callbacks waiting on it last-registered first
SendToFront(a, m) ==
  /\ outbound' = IF pc[a] = "resolved" THEN [outbound EXCEPT ![a] = Append(@, m)]
                                         ELSE outbound
  /\ thenQueue' = IF pc[a] = "resolved" THEN thenQueue
                                          ELSE [thenQueue EXCEPT ![a] = <<m>> \o @]

\* sessionPromise.then(s => s.send...(m)) of attempt a: sent at once when the
\* promise is resolved, queued until then otherwise
SendTo(a, m) ==
  /\ outbound' = IF pc[a] = "resolved" THEN [outbound EXCEPT ![a] = Append(@, m)]
                                         ELSE outbound
  /\ thenQueue' = IF pc[a] = "resolved" THEN thenQueue
                                          ELSE [thenQueue EXCEPT ![a] = Append(@, m)]

NoSend == UNCHANGED <<outbound, thenQueue>>

\* a disconnect() that closes what it holds but keeps the references
disconnectKeepingRefs(sref, mref, ch, mgrs) ==
  /\ chan' = IF sref # Null THEN [ch EXCEPT ![sref] = SessionClose(@)] ELSE ch
  /\ sessionRef' = sref
  /\ am' = IF mref # Null THEN [mgrs EXCEPT ![mref] = ClosedManager(@)] ELSE mgrs
  /\ procAttached' = IF mref # Null THEN procAttached \ {mgrs[mref].processor}
                                     ELSE procAttached
  /\ tracksLive' = IF mref # Null THEN tracksLive \ {mgrs[mref].stream} ELSE tracksLive
  /\ audioManagerRef' = mref
  /\ connectionState' = "DISCONNECTED"
  /\ lastLog' = "Disconnected."

\* disconnect() run on the refs `sref` and `mref`, the channels `ch` and the
\* managers `mgrs` as the calling handler left them
disconnect(sref, mref, ch, mgrs) ==
  /\ chan' = IF sref # Null THEN [ch EXCEPT ![sref] = SessionClose(@)] ELSE ch
  /\ sessionRef' = Null
  /\ am' = IF mref # Null THEN [mgrs EXCEPT ![mref] = ClosedManager(@)] ELSE mgrs
  /\ procAttached' = IF mref # Null THEN procAttached \ {mgrs[mref].processor}
                                     ELSE procAttached
  /\ tracksLive' = IF mref # Null THEN tracksLive \ {mgrs[mref].stream} ELSE tracksLive
  /\ audioManagerRef' = Null
  /\ connectionState' = "DISCONNECTED"
  /\ lastLog' = "Disconnected."

\* no handler is in the middle of its catch block
Idle == \A a \in Attempts : pc[a] # "catching"

\* a connect() that goes on to ai.live.connect without looking at the key
ConnectUnchecked ==
  /\ Idle
  /\ connectionState # "CONNECTED"
  /\ nAttempts < MaxAttempts
  /\ nAttempts' = nAttempts + 1
  /\ audioManagerRef' = nAttempts + 1
  /\ am' = [am EXCEPT ![nAttempts + 1] = NewAudioManager]
  /\ connectionState' = "CONNECTING"
  /\ lastLog' = "Connecting..."
  /\ chan' = [chan EXCEPT ![nAttempts + 1] = "opening"]
  /\ pc' = [pc EXCEPT ![nAttempts + 1] = "awaiting"]
  /\ NoSend
  /\ UNCHANGED <<sessionRef, procAttached, tracksLive, apiKey, activeFile, opened, mic,
                 micMgr, msgs, nCalls, nBlocks, now>>
  /\ captured' = [captured EXCEPT ![nAttempts + 1] = settings]
  /\ UNCHANGED <<settings, lastBlock, benchVars>>

\* the INITIALIZE button: connect() up to its await of ai.live.connect, or,
\* with no API key, up to setConnectionState(ERROR) in its catch block
Connect ==
  /\ Idle
  /\ connectionState # "CONNECTED"
  /\ nAttempts < MaxAttempts
  /\ LET a == nAttempts + 1
     IN /\ nAttempts' = a
        /\ audioManagerRef' = a
        /\ am' = [am EXCEPT ![a] = NewAudioManager]
        /\ IF apiKey
             THEN /\ connectionState' = "CONNECTING"
                  /\ lastLog' = "Connecting..."
                  /\ chan' = [chan EXCEPT ![a] = "opening"]
                  /\ pc' = [pc EXCEPT ![a] = "awaiting"]
             ELSE /\ connectionState' = "ERROR"
                  /\ lastLog' = "Initialization Failed"
                  /\ pc' = [pc EXCEPT ![a] = "catching"]
                  /\ UNCHANGED chan
  /\ NoSend
  /\ UNCHANGED <<sessionRef, procAttached, tracksLive, apiKey, activeFile, opened, mic,
                 micMgr, msgs, nCalls, nBlocks, now>>
  /\ captured' = [captured EXCEPT ![nAttempts + 1] = settings]
  /\ UNCHANGED <<settings, lastBlock, benchVars>>

\* ai.live.connect rejects: connect()'s catch block up to setConnectionState(ERROR)
ConnectReject(a) ==
  /\ Idle
  /\ pc[a] = "awaiting"
  /\ chan[a] = "opening"
  /\ pc' = [pc EXCEPT ![a] = "catching"]
  /\ chan' = [chan EXCEPT ![a] = "closed"]
  /\ connectionState' = "ERROR"
  /\ lastLog' = "Initialization Failed"
  /\ NoSend
  /\ UNCHANGED <<sessionRef, audioManagerRef, procAttached, tracksLive, am, apiKey,
                 activeFile, nAttempts, opened, mic, micMgr, msgs, nCalls, nBlocks, now>>
  /\ UNCHANGED <<gateVars, benchVars>>

\* the rest of connect()'s catch block: disconnect()
CatchTeardown(a) ==
  /\ pc[a] = "catching"
  /\ pc' = [pc EXCEPT ![a] = "failed"]
  /\ disconnect(sessionRef, audioManagerRef, chan, am)
  /\ NoSend
  /\ UNCHANGED <<apiKey, activeFile, nAttempts, opened, mic, micMgr, msgs, nCalls,
                 nBlocks, now>>
  /\ UNCHANGED <<gateVars, benchVars>>

\* ai.live.connect resolves: sessionRef.current = session; resolveSession(session)
ConnectResolve(a) ==
  /\ Idle
  /\ pc[a] = "awaiting"
  /\ opened[a]
  /\ pc' = [pc EXCEPT ![a] = "resolved"]
  /\ sessionRef' = a
  /\ outbound' = [outbound EXCEPT ![a] = @ \o thenQueue[a]]
  /\ thenQueue' = [thenQueue EXCEPT ![a] = <<>>]
  /\ UNCHANGED <<connectionState, lastLog, audioManagerRef, apiKey, activeFile, nAttempts,
                 chan, opened, mic, micMgr, procAttached, tracksLive, am, msgs, nCalls,
                 nBlocks, now>>
  /\ UNCHANGED <<gateVars, benchVars>>

\* the system notification onopen sends when a file is active
ContextNotice == [type |-> "context", text |-> "User uploaded file (name)"]

\* onopen of attempt a, up to the await inside initializeInput (or to its end
\* when no audio manager is held)
OnOpen(a) ==
  /\ Idle
  /\ chan[a] = "opening"
  /\ chan' = [chan EXCEPT ![a] = "open"]
  /\ opened' = [opened EXCEPT ![a] = TRUE]
  /\ connectionState' = "CONNECTED"
  /\ lastLog' = "Link Established."
  /\ IF audioManagerRef # Null
       THEN /\ mic' = [mic EXCEPT ![a] = "pending"]
            /\ micMgr' = [micMgr EXCEPT ![a] = audioManagerRef]
            /\ NoSend
       ELSE /\ UNCHANGED <<mic, micMgr>>
            /\ IF activeFile THEN SendTo(a, ContextNotice) ELSE NoSend
  /\ UNCHANGED <<sessionRef, audioManagerRef, apiKey, activeFile, nAttempts, pc,
                 procAttached, tracksLive, am, msgs, nCalls, nBlocks, now>>
  /\ UNCHANGED <<gateVars, benchVars>>

\* getUserMedia resolves: the rest of initializeInput, then the rest of onopen
MicGranted(a) ==
  /\ Idle
  /\ mic[a] = "pending"
  /\ mic' = [mic EXCEPT ![a] = "granted"]
  /\ am' = [am EXCEPT ![micMgr[a]].stream = a, ![micMgr[a]].processor = a]
  /\ tracksLive' = tracksLive \cup {a}
  /\ procAttached' = procAttached \cup {a}
  /\ IF activeFile THEN SendTo(a, ContextNotice) ELSE NoSend
  /\ UNCHANGED <<connectionState, lastLog, sessionRef, audioManagerRef, apiKey, activeFile,
                 nAttempts, pc, chan, opened, micMgr, msgs, nCalls, nBlocks, now>>
  /\ UNCHANGED <<gateVars, benchVars>>

\* getUserMedia rejects: initializeInput and onopen end with the exception
MicDenied(a) ==
  /\ Idle
  /\ mic[a] = "pending"
  /\ mic' = [mic EXCEPT ![a] = "denied"]
  /\ NoSend
  /\ UNCHANGED <<connectionState, lastLog, sessionRef, audioManagerRef, apiKey, activeFile,
                 nAttempts, pc, chan, opened, micMgr, procAttached, tracksLive, am, msgs,
                 nCalls, nBlocks, now>>
  /\ UNCHANGED <<gateVars, benchVars>>

\* a threshold that rises with the sensitivity
ThresholdRising(sensitivity) == 1 + sensitivity * 5

\* the noise gate's threshold, in thousandths, for a sensitivity in tenths
Threshold(sensitivity) == 1 + (10 - sensitivity) * 5

\* the block levels (RMS, in thousandths) the microphone delivers
RmsLevels == {0, Threshold(DefaultSensitivity), Threshold(DefaultSensitivity) + 1}

\* the sensitivities the settings slider is moved to, in tenths
Sensitivities == 0..10

\* the block levels of a microphone next to every threshold the slider can give
GateLevels == {0} \cup UNION {{Threshold(x), Threshold(x) + 1} : x \in {0, DefaultSensitivity, 10}}

\* a gate that reads the setting at each block
GateOpenLive(a, rms) == rms > Threshold(settings)

\* `rms > threshold`, with the sensitivity initializeInput was called with
GateOpen(a, rms) == rms > Threshold(captured[a])

\* onaudioprocess of the processor installed for attempt a
CaptureBlock(a, rms) ==
  /\ Idle
  /\ a \in procAttached
  /\ nBlocks < MaxBlocks
  /\ nBlocks' = nBlocks + 1
  /\ IF ~am[micMgr[a]].isClosed /\ GateOpen(a, rms)
       THEN SendTo(a, [type |-> "media", block |-> nBlocks + 1, mgr |-> micMgr[a],
                       early |-> pc[a] # "resolved"])
       ELSE NoSend
  /\ lastBlock' = [block |-> nBlocks + 1, att |-> a, rms |-> rms,
                   gated |-> ~am[micMgr[a]].isClosed]
  /\ UNCHANGED <<settings, captured, benchVars>>
  /\ UNCHANGED <<connectionState, lastLog, sessionRef, audioManagerRef, apiKey, activeFile,
                 nAttempts, pc, chan, opened, mic, micMgr, procAttached, tracksLive, am,
                 msgs, nCalls, now>>

\* the sensitivity slider of the settings dialog: setSettings
ChangeSetting(x) ==
  /\ x # settings
  /\ settings' = x
  /\ UNCHANGED <<orchVars, procAttached, tracksLive, am, nBlocks, now, captured, lastBlock,
                 benchVars>>

\* the TERMINATE button
UserDisconnect ==
  /\ Idle
  /\ connectionState = "CONNECTED"
  /\ disconnect(sessionRef, audioManagerRef, chan, am)
  /\ NoSend
  /\ UNCHANGED <<apiKey, activeFile, nAttempts, pc, opened, mic, micMgr, msgs, nCalls,
                 nBlocks, now>>
  /\ UNCHANGED <<gateVars, benchVars>>

\* an onclose that only logs
OnCloseLogsOnly(a) ==
  /\ Idle
  /\ chan[a] \in {"opening", "open", "closing"}
  /\ chan' = [chan EXCEPT ![a] = "closed"]
  /\ lastLog' = "Link severed."
  /\ NoSend
  /\ UNCHANGED <<connectionState, sessionRef, audioManagerRef, apiKey, activeFile,
                 nAttempts, pc, opened, mic, micMgr, procAttached, tracksLive, am,
                 msgs, nCalls, nBlocks, now>>
  /\ UNCHANGED <<gateVars, benchVars>>

\* onclose of attempt a
OnClose(a) ==
  /\ Idle
  /\ chan[a] \in {"opening", "open", "closing"}
  /\ disconnect(sessionRef, audioManagerRef, [chan EXCEPT ![a] = "closed"], am)
  /\ NoSend
  /\ UNCHANGED <<apiKey, activeFile, nAttempts, pc, opened, mic, micMgr, msgs, nCalls,
                 nBlocks, now>>
  /\ UNCHANGED <<gateVars, benchVars>>

\* onerror of attempt a
OnError(a) ==
  /\ Idle
  /\ chan[a] \in {"opening", "open", "closing"}
  /\ lastLog' = "Protocol Error"
  /\ NoSend
  /\ UNCHANGED <<connectionState, sessionRef, audioManagerRef, apiKey, activeFile,
                 nAttempts, pc, chan, opened, mic, micMgr, procAttached, tracksLive, am,
                 msgs, nCalls, nBlocks, now>>
  /\ UNCHANGED <<gateVars, benchVars>>

\* a part of serverContent.modelTurn.parts: inline audio (by its decoded byte
\* length) or text
AudioPart(bytes) == [audio |-> bytes, text |-> FALSE]
TextPart == [audio |-> 0, text |-> TRUE]

\* the inbound messages the remote side may deliver: the names of
\* toolCall.functionCalls (the remote side numbers the calls) and the parts
InboundMessages ==
  {[names |-> <<"generate_video", "get_current_time">>, parts |-> <<AudioPart(2)>>],
   [names |-> <<"no_such_tool">>, parts |-> <<TextPart>>],
   [names |-> <<"no_such_tool", "get_current_time">>,
    parts |-> <<[audio |-> 2, text |-> TRUE]>>],
   [names |-> <<"get_current_time">>, parts |-> <<>>],
   [names |-> <<>>, parts |-> <<AudioPart(2)>>],
   [names |-> <<>>, parts |-> <<AudioPart(3)>>],
   [names |-> <<>>, parts |-> <<TextPart, AudioPart(4)>>]}

\* the calls of a message, numbered from `base`
NumberedCalls(names, base) ==
  [i \in 1..Len(names) |->
     [id |-> base + i, name |-> names[i], status |-> "pending", failed |-> FALSE,
      threw |-> FALSE, media |-> 0]]

\* the inline audio payload onmessage reads (0: none)
AudioOf(parts) == IF parts # <<>> THEN parts[1].audio ELSE 0

\* whether onmessage finds a text fragment
TextOf(parts) == parts # <<>> /\ parts[1].text

\* the audio and transcript branches of onmessage for message number k, the
\* handler having logged `log` last
AudioTextBranches(k, parts, log) ==
  /\ am' = IF AudioOf(parts) # 0 /\ audioManagerRef # Null
             THEN [am EXCEPT ![audioManagerRef] =
                     PlayStarted(@, [bytes |-> AudioOf(parts), msg |-> k])]
             ELSE am
  /\ lastLog' = IF TextOf(parts) THEN "transcript" ELSE log

\* a handler that leaves the calls of a message alone while a call of an
\* earlier message is executing
DispatchedWhenFree(calls) ==
  IF \E k \in 1..Len(msgs) : \E i \in 1..Len(msgs[k].calls) :
       msgs[k].calls[i].status = "running"
    THEN calls
    ELSE [calls EXCEPT ![1].status = "running"]

\* the calls of a message when its handler reaches the first `await
\* executeTool`: the first call is executing
Dispatched(calls) == [calls EXCEPT ![1].status = "running"]

\* onmessage of attempt a: with tool calls, up to the await of the first
\* executeTool; without, to its end
OnMessage(a, names, parts) ==
  /\ Idle
  /\ chan[a] = "open"
  /\ Len(msgs) < MaxMsgs
  /\ LET k == Len(msgs) + 1
         calls == NumberedCalls(names, nCalls)
     IN IF names # <<>>
          THEN /\ msgs' = Append(msgs, [att |-> a, parts |-> parts, done |-> FALSE,
                                        calls |-> Dispatched(calls)])
               /\ lastLog' = "Activating Tool"
               /\ UNCHANGED am
          ELSE /\ msgs' = Append(msgs, [att |-> a, parts |-> parts, done |-> TRUE,
                                        calls |-> calls])
               /\ AudioTextBranches(k, parts, lastLog)
  /\ nCalls' = nCalls + Len(names)
  /\ NoSend
  /\ UNCHANGED <<connectionState, sessionRef, audioManagerRef, apiKey, activeFile,
                 nAttempts, pc, chan, opened, mic, micMgr, procAttached, tracksLive,
                 nBlocks, now>>
  /\ UNCHANGED <<gateVars, benchVars>>

\* the items a call hands to onMediaGenerated before it returns
Emitted(name, fails) == IF name = "generate_video" /\ ~fails THEN 1 ELSE 0

\* the index of the call message m is awaiting (0: none)
Running(m) ==
  IF \E i \in 1..Len(m.calls) : m.calls[i].status = "running"
    THEN CHOOSE i \in 1..Len(m.calls) : m.calls[i].status = "running"
    ELSE 0

\* onmessage of message k resumes after `await executeTool`: it sends the
\* response, then starts the next call or, after the last one, runs the audio
\* and transcript branches
ToolComplete(k, fails) ==
  /\ Idle
  /\ k \in 1..Len(msgs)
  /\ Running(msgs[k]) # 0
  /\ LET m == msgs[k]
         i == Running(m)
         last == i = Len(m.calls)
         log == IF executeTool(m.calls[i].name, fails).threw THEN "Tool Error" ELSE lastLog
         settled == [m.calls EXCEPT ![i].status = "done",
                                    ![i].failed = CapabilityRaises(m.calls[i].name, fails),
                                    ![i].threw = executeTool(m.calls[i].name, fails).threw,
                                    ![i].media = Emitted(m.calls[i].name, fails)]
     IN /\ fails => m.calls[i].name \in FallibleTools
        /\ SendTo(m.att, ToolResponse(m.calls, i, fails))
        /\ IF last
             THEN /\ msgs' = [msgs EXCEPT ![k].calls = settled, ![k].done = TRUE]
                  /\ AudioTextBranches(k, m.parts, log)
             ELSE /\ msgs' = [msgs EXCEPT ![k].calls =
                                [settled EXCEPT ![i + 1].status = "running"]]
                  /\ lastLog' = "Activating Tool"
                  /\ UNCHANGED am
  /\ UNCHANGED <<connectionState, sessionRef, audioManagerRef, apiKey, activeFile,
                 nAttempts, pc, chan, opened, mic, micMgr, procAttached, tracksLive,
                 nCalls, nBlocks, now>>
  /\ UNCHANGED <<gateVars, benchVars>>

\* playAudioChunk of manager m resumes after `await decodeAudioData`
PlayFinish(m) ==
  /\ Idle
  /\ am[m].created
  /\ am[m].decoding # <<>>
  /\ am' = [am EXCEPT ![m] = PlayFinished(@, now)]
  /\ NoSend
  /\ UNCHANGED <<connectionState, lastLog, sessionRef, audioManagerRef, apiKey, activeFile,
                 nAttempts, pc, chan, opened, mic, micMgr, procAttached, tracksLive,
                 msgs, nCalls, nBlocks, now>>
  /\ UNCHANGED <<gateVars, benchVars>>

\* no onaudioprocess call has been made
NoBlock == [block |-> 0, att |-> Null, rms |-> 0, gated |-> FALSE]

\* `activeFile` is null
NoFile == [present |-> FALSE, content |-> <<>>]

\* executeTool has not been called on its own
NoTool ==
  [n |-> 0, phase |-> "none", name |-> "", aspect |-> "", request |-> "",
   operation |-> [done |-> FALSE, uri |-> FALSE], seen |-> <<>>, checks |-> 0,
   polls |-> 0, media |-> <<>>, result |-> "", file |-> NoFile, content |-> <<>>,
   url |-> <<>>, opened |-> <<>>, named |-> <<>>]

\* no buffer has been encoded
NoCodec ==
  [phase |-> "none", input |-> <<>>, pcm |-> <<>>, base64 |-> <<>>, recovered |-> <<>>,
   output |-> <<>>]

\* ---------------------------------------------------------- specification

\* the state of App's hooks after the first render
Mounted ==
  /\ connectionState = "DISCONNECTED"
  /\ lastLog = ""
  /\ sessionRef = Null
  /\ audioManagerRef = Null
  /\ apiKey \in BOOLEAN
  /\ activeFile \in BOOLEAN
  /\ nAttempts = 0
  /\ pc = [a \in Attempts |-> "idle"]
  /\ chan = [a \in Attempts |-> "none"]
  /\ opened = [a \in Attempts |-> FALSE]
  /\ thenQueue = [a \in Attempts |-> <<>>]
  /\ outbound = [a \in Attempts |-> <<>>]
  /\ mic = [a \in Attempts |-> "none"]
  /\ micMgr = [a \in Attempts |-> Null]
  /\ procAttached = {}
  /\ tracksLive = {}
  /\ msgs = <<>>
  /\ nCalls = 0
  /\ nBlocks = 0
  /\ now = 0
  /\ settings = DefaultSensitivity
  /\ captured = [a \in Attempts |-> DefaultSensitivity]
  /\ lastBlock = NoBlock
  /\ tool = NoTool
  /\ codec = NoCodec

\* the application as mounted: no AudioManager has been constructed
Init ==
  /\ Mounted
  /\ am = [m \in Attempts |-> NoAudioManager]

\* the session's lifecycle and its capture pipeline
Lifecycle ==
  \/ Connect
  \/ UserDisconnect
  \/ \E a \in Attempts : ConnectReject(a)
  \/ \E a \in Attempts : CatchTeardown(a)
  \/ \E a \in Attempts : ConnectResolve(a)
  \/ \E a \in Attempts : OnOpen(a)
  \/ \E a \in Attempts : MicGranted(a)
  \/ \E a \in Attempts : MicDenied(a)
  \/ \E a \in Attempts : OnClose(a)
  \/ \E a \in Attempts : OnError(a)
  \/ \E a \in Attempts, rms \in RmsLevels : CaptureBlock(a, rms)

Next == Lifecycle

Spec == Init /\ [][Next]_vars

\* the handling of inbound messages during the first session
ToolInit == Init /\ apiKey

FirstConnect == nAttempts = 0 /\ Connect

ToolNext ==
  \/ FirstConnect
  \/ UserDisconnect
  \/ \E a \in Attempts : ConnectResolve(a)
  \/ \E a \in Attempts : OnOpen(a)
  \/ \E a \in Attempts : OnClose(a)
  \/ \E a \in Attempts, im \in InboundMessages : OnMessage(a, im.names, im.parts)
  \/ \E k \in 1..MaxMsgs, fails \in BOOLEAN : ToolComplete(k, fails)
  \/ \E m \in Attempts : PlayFinish(m)

ToolSpec == ToolInit /\ [][ToolNext]_vars

\* the noise gate: the first session is started and ended while the slider is
\* moved and the microphone delivers blocks
CaptureInit == Init /\ apiKey /\ ~activeFile

CaptureNext ==
  \/ FirstConnect
  \/ UserDisconnect
  \/ \E x \in Sensitivities : ChangeSetting(x)
  \/ \E a \in Attempts : ConnectResolve(a)
  \/ \E a \in Attempts : OnOpen(a)
  \/ \E a \in Attempts : MicGranted(a)
  \/ \E a \in Attempts, rms \in GateLevels : CaptureBlock(a, rms)

CaptureSpec == CaptureInit /\ [][CaptureNext]_vars

\* ------------------------------------------------ the audio codec on its own

\* a float sample is a whole number of grains: 1.0 is Grain of them
Grain == 2 * FullScale

\* the sample values a block is made of, also some beyond [-1, 1]
SampleValues ==
  {-(3 * Grain) \div 2, -Grain, 1 - Grain, -3, -1, 0, 1, 3, Grain \div 2, Grain - 1, Grain,
   (3 * Grain) \div 2}

\* the blocks handed to the encoder
SampleBlocks == UNION {[1..n -> SampleValues] : n \in 1..MaxSamples}

\* Math.min
Min(x, y) == IF x <= y THEN x ELSE y

\* the quotient n / d, d positive, without its fraction: the conversion a
\* store into an Int16Array begins with
TruncQuot(n, d) == IF n >= 0 \/ n % d = 0 THEN n \div d ELSE (n \div d) + 1

\* the rest of that conversion: the value modulo 2^16, as a signed number
ToInt16(n) == ((n + FullScale) % (2 * FullScale)) - FullScale

\* one pass of float32ToInt16's loop
Sample16(k) ==
  LET c == Max(-Grain, Min(Grain, k))
  IN  ToInt16(TruncQuot(IF c < 0 THEN c * FullScale ELSE c * PositiveScale, Grain))

\* float32ToInt16: every sample of the block, in order
float32ToInt16(x) == [i \in 1..Len(x) |-> Sample16(x[i])]

\* new Uint8Array(int16Data.buffer): two bytes a sample, the low one first
BytesOf(pcm) ==
  [i \in 1..(2 * Len(pcm)) |->
     LET u == pcm[(i + 1) \div 2] % (2 * FullScale)
     IN  IF i % 2 = 1 THEN u % 256 ELSE u \div 256]

\* btoa: three bytes become four digits of six bits; 64 stands for the padding
RECURSIVE Btoa(_)
Btoa(b) ==
  IF b = <<>> THEN <<>>
  ELSE IF Len(b) = 1 THEN <<b[1] \div 4, (b[1] % 4) * 16, 64, 64>>
  ELSE IF Len(b) = 2
    THEN <<b[1] \div 4, (b[1] % 4) * 16 + b[2] \div 16, (b[2] % 16) * 4, 64>>
  ELSE <<b[1] \div 4, (b[1] % 4) * 16 + b[2] \div 16, (b[2] % 16) * 4 + b[3] \div 64,
         b[3] % 64>> \o Btoa(SubSeq(b, 4, Len(b)))

createAudioBlob(int16Data) == Btoa(BytesOf(int16Data))

\* atob: four digits become three bytes, fewer where the group is padded
RECURSIVE Atob(_)
Atob(c) ==
  IF c = <<>> THEN <<>>
  ELSE LET b1 == c[1] * 4 + c[2] \div 16
           b2 == (c[2] % 16) * 16 + c[3] \div 4
           b3 == (c[3] % 4) * 64 + c[4]
       IN  (IF c[3] = 64 THEN <<b1>> ELSE IF c[4] = 64 THEN <<b1, b2>> ELSE <<b1, b2, b3>>)
             \o Atob(SubSeq(c, 5, Len(c)))

\* a view that takes the first byte of a pair for the high one
Int16FromBytesSwapped(lo, hi) == ToInt16(lo * 256 + hi)

\* one element of new Int16Array(bytes.buffer)
Int16FromBytes(lo, hi) == ToInt16(hi * 256 + lo)

\* dataInt16 of decodeAudioData
Int16View(bytes) ==
  [i \in 1..DecodedFrames(Len(bytes)) |-> Int16FromBytes(bytes[2 * i - 1], bytes[2 * i])]

\* channelData of decodeAudioData: dataInt16[i] / 32768.0, in grains
decodeAudioData(base64String) ==
  LET dataInt16 == Int16View(Atob(base64String))
  IN  [i \in 1..Len(dataInt16) |-> (dataInt16[i] * Grain) \div FullScale]

\* the microphone delivers a block
Capture(x) ==
  /\ codec.phase = "none"
  /\ codec' = [codec EXCEPT !.phase = "input", !.input = x]
  /\ UNCHANGED <<orchVars, procAttached, tracksLive, am, nBlocks, now, gateVars, tool>>

\* `float32ToInt16(inputData)` of the capture callback
Encode ==
  /\ codec.phase = "input"
  /\ codec' = [codec EXCEPT !.phase = "encoded", !.pcm = float32ToInt16(codec.input)]
  /\ UNCHANGED <<orchVars, procAttached, tracksLive, am, nBlocks, now, gateVars, tool>>

\* `createAudioBlob(pcm16)`: the base64 text of the frame
Frame ==
  /\ codec.phase = "encoded"
  /\ codec' = [codec EXCEPT !.phase = "framed", !.base64 = createAudioBlob(codec.pcm)]
  /\ UNCHANGED <<orchVars, procAttached, tracksLive, am, nBlocks, now, gateVars, tool>>

\* decodeAudioData of that text
Decode ==
  /\ codec.phase = "framed"
  /\ codec' = [codec EXCEPT !.phase = "decoded",
                            !.recovered = Int16View(Atob(codec.base64)),
                            !.output = decodeAudioData(codec.base64)]
  /\ UNCHANGED <<orchVars, procAttached, tracksLive, am, nBlocks, now, gateVars, tool>>

\* one block taken through the encoder, the framing and the decoder
CodecInit == Init /\ apiKey /\ ~activeFile

CodecNext ==
  \/ \E x \in SampleBlocks : Capture(x)
  \/ Encode
  \/ Frame
  \/ Decode

CodecSpec == CodecInit /\ [][CodecNext]_vars

\* ------------------------------------------- the tool dispatcher on its own

\* the names executeTool is called with
DispatchNames == ToolNames \cup {"generate_image", "open_website", "read_active_file"}

\* a text is a sequence of runs, each a character repeated n times
Run(c, n) == [c |-> c, n |-> n]

\* `.length`
RECURSIVE Length(_)
Length(text) == IF text = <<>> THEN 0 ELSE Head(text).n + Length(Tail(text))

\* the character at position i, counted from 1
RECURSIVE CharAt(_, _)
CharAt(text, i) ==
  IF i <= Head(text).n THEN Head(text).c ELSE CharAt(Tail(text), i - Head(text).n)

\* `.substring(0, len)`
RECURSIVE Substring(_, _)
Substring(text, len) ==
  IF text = <<>> \/ len = 0 THEN <<>>
  ELSE IF Head(text).n <= len
    THEN <<Head(text)>> \o Substring(Tail(text), len - Head(text).n)
  ELSE <<Run(Head(text).c, len)>>

\* "... [TRUNCATED]"
TruncationMarker ==
  <<Run(".", 3), Run(" ", 1), Run("[", 1), Run("T", 1), Run("R", 1), Run("U", 1),
    Run("N", 1), Run("C", 1), Run("A", 1), Run("T", 1), Run("E", 1), Run("D", 1),
    Run("]", 1)>>

\* the files the user may have uploaded: empty, short, of exactly the
\* maximum length, one character longer, and twice as long
UploadedFiles ==
  {[present |-> TRUE, content |-> text] :
     text \in {<<>>, <<Run("a", 3)>>,
               <<Run("a", MaxFileChars - 1), Run("b", 1)>>,
               <<Run("a", MaxFileChars - 1), Run("b", 1), Run("c", 1)>>,
               <<Run("a", MaxFileChars), Run("b", MaxFileChars)>>}}

\* activeFileRef.current, as onmessage passes it to executeTool
FileArgs == IF activeFile THEN UploadedFiles ELSE {NoFile}

\* a reader that cuts a content of exactly the maximum length too
ReadContentEager(file) ==
  IF Length(file.content) >= MaxFileChars
    THEN Substring(file.content, MaxFileChars) \o TruncationMarker
    ELSE file.content

\* `content` of read_active_file
ReadContent(file) ==
  IF Length(file.content) > MaxFileChars
    THEN Substring(file.content, MaxFileChars) \o TruncationMarker
    ELSE file.content

\* the texts "http" and "https://"
Http == <<"h", "t", "t", "p">>
Https == <<"h", "t", "t", "p", "s", ":", "/", "/">>

\* the url argument of open_website
UrlArgs ==
  {<<"a", ".", "b">>, Https \o <<"a", ".", "b">>, Http \o <<":", "/", "/", "a", ".", "b">>,
   Http \o <<"b", "i", "n", ".", "b">>, <<>>}

\* `url.startsWith(prefix)`
StartsWith(url, prefix) ==
  Len(url) >= Len(prefix) /\ SubSeq(url, 1, Len(prefix)) = prefix

\* the url open_website hands to window.open
OpenedUrl(url) == IF ~StartsWith(url, Http) THEN Https \o url ELSE url

\* the enum the declaration of generate_image gives for aspectRatio
AspectRatios == {"1:1", "3:4", "4:3", "9:16", "16:9"}

\* the aspectRatio argument of a call: "" when the caller gave none
AspectArgs == AspectRatios \cup {"", "2:1"}

\* what generateVideos and getVideosOperation resolve with
Reports == {[done |-> FALSE, uri |-> FALSE], [done |-> TRUE, uri |-> TRUE],
            [done |-> TRUE, uri |-> FALSE]}

\* `args.aspectRatio || "16:9"`
RequestedAspect(aspect) == IF aspect = "" THEN "16:9" ELSE aspect

\* a loop that is left after the first look at the operation
NeverRunning(operation) == FALSE

\* the loop condition `!operation.done`
StillRunning(operation) == ~operation.done

\* the call after `operation` arrived: the loop condition is evaluated, then
\* the timer is started, or the asset is fetched, or the call returns
AfterReport(t, report) ==
  LET u == [t EXCEPT !.operation = report, !.seen = Append(@, report.done),
                     !.checks = @ + 1]
  IN  IF StillRunning(report) THEN [u EXCEPT !.phase = "sleep"]
      ELSE IF report.uri THEN [u EXCEPT !.phase = "fetch"]
      ELSE [u EXCEPT !.phase = "returned", !.result = "Video generation failed"]

\* executeTool(name, args, ...) up to its first await
Invoke(name, aspect, url, file) ==
  /\ tool.phase \in {"none", "returned"}
  /\ tool.n < MaxTools
  /\ name = "generate_image" \/ aspect = ""
  /\ name = "open_website" \/ url = <<>>
  /\ LET t == [NoTool EXCEPT !.n = tool.n + 1, !.name = name, !.aspect = aspect,
                             !.url = url, !.file = file]
     IN  tool' = CASE name = "generate_image" ->
                        [t EXCEPT !.phase = "image", !.request = RequestedAspect(aspect)]
                   [] name = "generate_video" -> [t EXCEPT !.phase = "start"]
                   [] name = "open_website" ->
                        [t EXCEPT !.phase = "returned", !.opened = OpenedUrl(url),
                                  !.named = OpenedUrl(url), !.result = "Opened website"]
                   [] name = "read_active_file" ->
                        IF ~file.present
                          THEN [t EXCEPT !.phase = "returned",
                                         !.result = "No file is currently uploaded"]
                          ELSE [t EXCEPT !.phase = "returned",
                                         !.result = "File Name and Content",
                                         !.content = ReadContent(file)]
                   [] OTHER -> [t EXCEPT !.phase = "returned",
                                         !.result = Capability(name).text]
  /\ UNCHANGED <<orchVars, procAttached, tracksLive, am, nBlocks, now, gateVars, codec>>

\* generateContent resolves: the first inline part, if any, becomes the image
ImageResponse(inline) ==
  /\ tool.phase = "image"
  /\ tool' = IF inline
               THEN [tool EXCEPT !.phase = "returned", !.media = Append(@, "image"),
                                 !.result = "Image generated and displayed on screen"]
               ELSE [tool EXCEPT !.phase = "returned", !.result = "Failed to generate image"]
  /\ UNCHANGED <<orchVars, procAttached, tracksLive, am, nBlocks, now, gateVars, codec>>

\* generateVideos resolves with the operation
VideoStarted(report) ==
  /\ tool.phase = "start"
  /\ tool' = AfterReport(tool, report)
  /\ UNCHANGED <<orchVars, procAttached, tracksLive, am, nBlocks, now, gateVars, codec>>

\* the 3000 ms timer fires: getVideosOperation is requested
TimerFired ==
  /\ tool.phase = "sleep"
  /\ tool.polls < MaxPolls
  /\ tool' = [tool EXCEPT !.phase = "poll", !.polls = @ + 1]
  /\ UNCHANGED <<orchVars, procAttached, tracksLive, am, nBlocks, now, gateVars, codec>>

\* getVideosOperation resolves with the operation's new state
VideoPolled(report) ==
  /\ tool.phase = "poll"
  /\ tool' = AfterReport(tool, report)
  /\ UNCHANGED <<orchVars, procAttached, tracksLive, am, nBlocks, now, gateVars, codec>>

\* fetch and blob resolve: the video item is handed to onMediaGenerated
VideoFetched ==
  /\ tool.phase = "fetch"
  /\ tool' = [tool EXCEPT !.phase = "returned", !.media = Append(@, "video"),
                          !.result = "Video generated and ready to play"]
  /\ UNCHANGED <<orchVars, procAttached, tracksLive, am, nBlocks, now, gateVars, codec>>

\* the request the call is waiting for rejects: the catch clause returns
Raise ==
  /\ tool.phase \in {"image", "start", "poll", "fetch"}
  /\ tool' = [tool EXCEPT !.phase = "returned", !.result = ToolCatch.value.text]
  /\ UNCHANGED <<orchVars, procAttached, tracksLive, am, nBlocks, now, gateVars, codec>>

\* executeTool called a few times in a row, each call left to finish
DispatchInit == Init /\ apiKey

DispatchNext ==
  \/ \E name \in DispatchNames, aspect \in AspectArgs, url \in UrlArgs, file \in FileArgs :
       Invoke(name, aspect, url, file)
  \/ \E inline \in BOOLEAN : ImageResponse(inline)
  \/ \E report \in Reports : VideoStarted(report)
  \/ TimerFired
  \/ \E report \in Reports : VideoPolled(report)
  \/ VideoFetched
  \/ Raise

DispatchSpec == DispatchInit /\ [][DispatchNext]_vars

\* --------------------------------------------- the AudioManager on its own

\* one AudioManager, constructed, and its caller: playAudioChunk and close in
\* any order, while the audio clock advances and nodes play to their end
SchedInit ==
  /\ Mounted
  /\ apiKey
  /\ ~activeFile
  /\ am = [m \in Attempts |-> IF m = 1 THEN NewAudioManager ELSE NoAudioManager]

\* the chunks handed to manager m so far
Enqueued(m) == Len(am[m].scheduled) + Len(am[m].decoding) + am[m].dropped

\* playAudioChunk(base64Audio) up to its await; disconnect drops the
\* reference to a manager in the step that closes it, so that onmessage
\* hands no chunk to a closed manager
Enqueue(m, bytes) ==
  /\ am[m].created
  /\ ~am[m].isClosed
  /\ Enqueued(m) < MaxChunks
  /\ am' = [am EXCEPT ![m] = PlayStarted(@, [bytes |-> bytes, msg |-> Enqueued(m) + 1])]
  /\ UNCHANGED <<orchVars, procAttached, tracksLive, nBlocks, now>>
  /\ UNCHANGED <<gateVars, benchVars>>

\* close()
Close(m) ==
  /\ am[m].created
  /\ am[m].closes < MaxCloses
  /\ am' = [am EXCEPT ![m] = ClosedManager(@)]
  /\ procAttached' = procAttached \ {am[m].processor}
  /\ tracksLive' = tracksLive \ {am[m].stream}
  /\ UNCHANGED <<orchVars, nBlocks, now>>
  /\ UNCHANGED <<gateVars, benchVars>>

\* source.onended of a node that has played to its end
NodeEnded(m, n) ==
  /\ n \in am[m].audioSources
  /\ now >= am[m].scheduled[n].start + am[m].scheduled[n].duration
  /\ am' = [am EXCEPT ![m].audioSources = @ \ {n}]
  /\ UNCHANGED <<orchVars, procAttached, tracksLive, nBlocks, now>>
  /\ UNCHANGED <<gateVars, benchVars>>

\* the audio clock advances
Tick ==
  /\ now < MaxTime
  /\ now' = now + 1
  /\ UNCHANGED <<orchVars, procAttached, tracksLive, am, nBlocks>>
  /\ UNCHANGED <<gateVars, benchVars>>

SchedNext ==
  \/ \E bytes \in 1..MaxBytes : Enqueue(1, bytes)
  \/ PlayFinish(1)
  \/ Close(1)
  \/ \E n \in 1..MaxChunks : NodeEnded(1, n)
  \/ Tick

SchedSpec == SchedInit /\ [][SchedNext]_vars

\* ------------------------------------------------------------------ claims

\* a session is live: a connection attempt or session is in progress, or a
\* session handle or an audio manager is still held
SessionLive ==
  \/ connectionState \in {"CONNECTING", "CONNECTED"}
  \/ sessionRef # Null
  \/ audioManagerRef # Null

\* C1: connect proceeds (opens a remote channel, creates an audio manager)
\* only when no earlier attempt or session is live.
C1_ConnectOnlyWhenNoneLive ==
  [][nAttempts' # nAttempts => ~SessionLive]_vars

\* C2: the session state enters CONNECTING only from DISCONNECTED, enters
\* CONNECTED only from CONNECTING, and ERROR is followed by DISCONNECTED.
C2_StateMachine ==
  [][/\ (connectionState' = "CONNECTING" /\ connectionState # "CONNECTING")
          => connectionState = "DISCONNECTED"
     /\ (connectionState' = "CONNECTED" /\ connectionState # "CONNECTED")
          => connectionState = "CONNECTING"
     /\ connectionState = "ERROR" => connectionState' = "DISCONNECTED"]_vars

\* the positions of outbound[a] filled by the step
Sent(a) == (Len(outbound[a]) + 1)..Len(outbound'[a])

\* C3: an audio frame goes out on a session only after that session's onopen
\* and once its handle is available, and never after the capture pipeline that
\* produced it was closed; an attempt whose channel never opens never makes
\* the state CONNECTED and never sends audio.
C3_AudioOnlyWhileLive ==
  /\ [](\A a \in Attempts : ~opened[a] => outbound[a] = <<>>)
  /\ [](connectionState = "CONNECTED" => \E a \in Attempts : opened[a])
  /\ [][\A a \in Attempts : \A i \in Sent(a) :
          outbound'[a][i].type = "media"
            => /\ opened[a]
               /\ pc'[a] = "resolved"
               /\ ~am'[outbound'[a][i].mgr].isClosed]_vars

\* the sends of attempt a's handlers, made or waiting on sessionPromise
Committed(a) == outbound[a] \o thenQueue[a]

\* the positions of the tool results in a sequence of sends
ToolEntries(q) == {p \in 1..Len(q) : q[p].type = "tool"}

\* the tool calls received so far, as <<message, index>>
Received == UNION {{<<k, i>> : i \in 1..Len(msgs[k].calls)} : k \in 1..Len(msgs)}

CallAt(c) == msgs[c[1]].calls[c[2]]

\* C4: the calls of one message are dispatched concurrently: no call waits to
\* be dispatched while an earlier call of its message is still executing.
C4_ConcurrentDispatch ==
  \A c, d \in Received :
    (c[1] = d[1] /\ c[2] < d[2] /\ CallAt(c).status = "running")
      => CallAt(d).status # "pending"

\* C5: every tool result carries the id and name of a received call that has
\* completed, no call is answered twice, and every completed call is answered
\* exactly once, on its own session, whatever the order of completion.
C5_ResultsCorrelated ==
  /\ \A a \in Attempts : \A p \in ToolEntries(Committed(a)) :
       \E c \in Received :
         /\ msgs[c[1]].att = a
         /\ CallAt(c).id = Committed(a)[p].id
         /\ CallAt(c).name = Committed(a)[p].name
         /\ CallAt(c).status = "done"
  /\ \A a, b \in Attempts :
       \A p \in ToolEntries(Committed(a)), q \in ToolEntries(Committed(b)) :
         Committed(a)[p].id = Committed(b)[q].id => (a = b /\ p = q)
  /\ \A c \in Received :
       CallAt(c).status = "done"
         => \E p \in ToolEntries(Committed(msgs[c[1]].att)) :
              Committed(msgs[c[1]].att)[p].id = CallAt(c).id
  /\ \A a \in Attempts : pc[a] = "resolved" => thenQueue[a] = <<>>

\* C5's case: of two calls, the one received later was answered first
C5_AnsweredOutOfOrder ==
  \E a \in Attempts : \E p, q \in ToolEntries(outbound[a]) :
    p < q /\ outbound[a][p].id > outbound[a][q].id

\* C6: the tool result of a call whose capability failed is tagged as an
\* error, {error: message}.
C6_FailureTagged ==
  \A c \in Received : \A p \in ToolEntries(Committed(msgs[c[1]].att)) :
    (CallAt(c).failed /\ Committed(msgs[c[1]].att)[p].id = CallAt(c).id)
      => Committed(msgs[c[1]].att)[p].response.kind = "error"

\* a tool call fails, or an audio chunk is dropped, in the step
UnitFails ==
  \/ \E c \in Received : CallAt(c).status = "running" /\ msgs'[c[1]].calls[c[2]].failed
  \/ \E m \in Attempts : am'[m].dropped > am[m].dropped

\* C7: executeTool never throws to its caller; a failed call does not keep the
\* next call of its message from being dispatched, and every completed call
\* is answered; a failed call or a failed audio chunk leaves the session state,
\* the session handle and the audio manager as they were.
C7_FailuresContained ==
  /\ [](\A c \in Received : ~CallAt(c).threw)
  /\ [](\A c, d \in Received :
          (c[1] = d[1] /\ d[2] = c[2] + 1 /\ CallAt(c).status = "done")
            => CallAt(d).status \in {"running", "done"})
  /\ [](\A c \in Received :
          CallAt(c).status = "done"
            => \E p \in ToolEntries(Committed(msgs[c[1]].att)) :
                 Committed(msgs[c[1]].att)[p].id = CallAt(c).id)
  /\ [][UnitFails => UNCHANGED <<connectionState, sessionRef, audioManagerRef, chan, pc>>]_vars

\* C7's case: a call failed and the call after it was answered, and an audio
\* chunk was dropped, with the session still connected
C7_FailedCallAndChunk ==
  /\ \E c, d \in Received :
       /\ c[1] = d[1] /\ d[2] = c[2] + 1
       /\ CallAt(c).failed /\ CallAt(d).status = "done"
  /\ \E m \in Attempts : am[m].dropped > 0
  /\ connectionState = "CONNECTED"

\* the schedule log of manager m, and the end of its n-th node
Log(m) == am[m].scheduled

EndOf(m, n) == Log(m)[n].start + Log(m)[n].duration

\* C8: the start times of successively scheduled chunks never decrease, and
\* each chunk starts no earlier than the end of the chunk scheduled before it.
C8_NoOverlap ==
  \A m \in Attempts : \A n \in 1..(Len(Log(m)) - 1) :
    Log(m)[n + 1].start >= EndOf(m, n)

\* C9: nextStartTime never decreases during the life of a manager.
C9_CursorMonotonic ==
  [][\A m \in Attempts : am'[m].nextStartTime >= am[m].nextStartTime]_vars

\* C9, amended: nextStartTime never decreases except in close(), which
\* resets it to zero.
C9_CursorMonotonicUntilClose ==
  [][\A m \in Attempts :
       am'[m].nextStartTime < am[m].nextStartTime
         => /\ am'[m].closes = am[m].closes + 1
            /\ am'[m].nextStartTime = 0]_vars

\* C9's case: the cursor advanced twice, then close() reset it
C9_AdvancedThenReset ==
  \E m \in Attempts :
    /\ am[m].closes >= 1
    /\ am[m].nextStartTime = 0
    /\ \E i, j \in 1..Len(Log(m)) :
         /\ i < j
         /\ Log(m)[i].epoch = 0 /\ Log(m)[j].epoch = 0
         /\ 0 < Log(m)[i].cursor /\ Log(m)[i].cursor < Log(m)[j].cursor

\* C10: every node is scheduled at max(now, nextStartTime): never before now,
\* at the cursor when the cursor is ahead of now, at now when the cursor is
\* behind it; and the cursor then becomes that start plus the duration.
C10_ScheduledAtMax ==
  \A m \in Attempts :
    /\ \A n \in 1..Len(Log(m)) :
         /\ Log(m)[n].start >= Log(m)[n].at
         /\ Log(m)[n].cursor >= Log(m)[n].at => Log(m)[n].start = Log(m)[n].cursor
         /\ Log(m)[n].cursor < Log(m)[n].at => Log(m)[n].start = Log(m)[n].at
    /\ \A n \in 1..(Len(Log(m)) - 1) :
         Log(m)[n + 1].epoch = Log(m)[n].epoch
           => Log(m)[n + 1].cursor = EndOf(m, n)
    /\ (Log(m) # <<>> /\ Log(m)[Len(Log(m))].epoch = am[m].closes)
         => am[m].nextStartTime = EndOf(m, Len(Log(m)))

\* C10's case: one node was scheduled gap-free at a cursor ahead of the
\* clock, and one at the clock after the cursor had fallen behind
C10_AheadAndBehind ==
  \E m \in Attempts : \E i, j \in 1..Len(Log(m)) :
    /\ Log(m)[i].cursor > Log(m)[i].at
    /\ Log(m)[j].cursor < Log(m)[j].at /\ Log(m)[j].cursor > 0

\* manager m's oldest pending decode completes in the step
DecodeCompletes(m) ==
  /\ am[m].decoding # <<>>
  /\ am'[m].decoding = Tail(am[m].decoding)

\* C11: a chunk whose payload decodes to an odd number of bytes is dropped: no
\* node is created or added to the live set, nextStartTime and the session
\* state stay as they were; a chunk of even length is scheduled at
\* max(now, nextStartTime) whatever was dropped before it.
C11_OddChunkDropped ==
  [][\A m \in Attempts :
       DecodeCompletes(m) =>
         IF Head(am[m].decoding).bytes % 2 = 1
           THEN /\ am'[m].dropped = am[m].dropped + 1
                /\ am'[m].scheduled = am[m].scheduled
                /\ am'[m].audioSources = am[m].audioSources
                /\ am'[m].nextStartTime = am[m].nextStartTime
                /\ UNCHANGED <<connectionState, sessionRef, audioManagerRef, chan>>
           ELSE /\ am'[m].dropped = am[m].dropped
                /\ Len(am'[m].scheduled) = Len(am[m].scheduled) + 1
                /\ am'[m].scheduled[Len(am'[m].scheduled)].start
                     = Max(now, am[m].nextStartTime)
                /\ am'[m].nextStartTime
                     = Max(now, am[m].nextStartTime) + Head(am[m].decoding).bytes \div 2
                /\ Len(am'[m].scheduled) \in am'[m].audioSources]_vars

\* C11's case: the chunk of an earlier message was dropped for its odd length
\* and the chunk of a later message was scheduled, the session still connected
C11_DroppedThenScheduled ==
  \E m \in Attempts :
    /\ am[m].dropped >= 1
    /\ connectionState = "CONNECTED"
    /\ \E n \in 1..Len(am[m].scheduled) : \E k \in 1..Len(msgs) :
         /\ k < am[m].scheduled[n].msg
         /\ AudioOf(msgs[k].parts) % 2 = 1

\* C12: with no API key, connect fails before a remote channel is opened and
\* before the microphone is requested; its teardown leaves the state
\* DISCONNECTED with no session handle and no audio manager held, the manager
\* it had created closed.
C12_NoCredential ==
  /\ [](~apiKey => \A a \in Attempts :
                     /\ chan[a] = "none" /\ mic[a] = "none" /\ ~opened[a]
                     /\ outbound[a] = <<>> /\ thenQueue[a] = <<>>
                     /\ tracksLive = {} /\ procAttached = {}
                     /\ pc[a] \in {"idle", "catching", "failed"})
  /\ []((~apiKey /\ Idle) =>
          /\ connectionState = "DISCONNECTED"
          /\ sessionRef = Null
          /\ audioManagerRef = Null
          /\ \A a \in Attempts : pc[a] = "failed" => am[a].isClosed)
  /\ [][(~apiKey /\ nAttempts' # nAttempts) => pc'[nAttempts'] = "catching"]_vars

\* C12's case: a connect without a key has failed and been torn down
C12_FailedWithoutKey ==
  /\ ~apiKey
  /\ nAttempts >= 1
  /\ pc[nAttempts] = "failed"
  /\ connectionState = "DISCONNECTED"

\* C13: when the microphone is refused the attempt is aborted: the session
\* does not stay CONNECTED on a manager whose capture pipeline never started.
C13_MicFailureAborts ==
  \A a \in Attempts :
    (mic[a] = "denied" /\ audioManagerRef = micMgr[a]) => connectionState # "CONNECTED"

\* the onclose of attempt a runs in the step (a rejected ai.live.connect also
\* ends the channel, but moves connect() into its catch block)
ChannelCloses(a) ==
  /\ chan[a] \in {"opening", "open", "closing"}
  /\ chan'[a] = "closed"
  /\ pc'[a] = pc[a]

\* C14: onerror appends a log entry and changes nothing else; onclose always
\* tears down: the audio manager held is closed and released, the session
\* handle is dropped and the state becomes DISCONNECTED.
C14_ErrorLogsCloseTearsDown ==
  [][/\ (lastLog' = "Protocol Error" /\ lastLog # "Protocol Error")
          => UNCHANGED <<connectionState, sessionRef, audioManagerRef, apiKey, activeFile,
                         nAttempts, pc, chan, opened, thenQueue, outbound, mic, micMgr,
                         procAttached, tracksLive, am, msgs, nCalls, nBlocks, now>>
     /\ \A a \in Attempts :
          ChannelCloses(a)
            => /\ connectionState' = "DISCONNECTED"
               /\ sessionRef' = Null
               /\ audioManagerRef' = Null
               /\ audioManagerRef # Null
                    => /\ am'[audioManagerRef].isClosed
                       /\ am'[audioManagerRef].audioSources = {}
                       /\ am'[audioManagerRef].processor = Null
                       /\ am'[audioManagerRef].stream = Null]_vars

\* C14's case: the first session was ended by its onclose, and the second is
\* still connected, with its handle and manager, after an onerror
C14_ClosedThenErrorLogged ==
  /\ chan[1] = "closed" /\ pc[1] = "resolved" /\ am[1].isClosed
  /\ lastLog = "Protocol Error"
  /\ connectionState = "CONNECTED"
  /\ sessionRef = 2 /\ audioManagerRef = 2 /\ ~am[2].isClosed

\* disconnect() runs in the step: from onclose, from connect()'s catch block
\* or from the TERMINATE button
DisconnectRuns ==
  \/ \E a \in Attempts : ChannelCloses(a)
  \/ \E a \in Attempts : pc[a] = "catching" /\ pc'[a] = "failed"
  \/ connectionState = "CONNECTED" /\ connectionState' = "DISCONNECTED"

\* C15: every run of disconnect(), in whatever state and from whichever
\* caller, ends DISCONNECTED with no session handle and no audio manager held;
\* a run that finds nothing held closes nothing, no manager is closed twice and
\* no session is closed by disconnect() a second time.
C15_DisconnectIdempotent ==
  /\ [][DisconnectRuns =>
          /\ connectionState' = "DISCONNECTED"
          /\ sessionRef' = Null
          /\ audioManagerRef' = Null
          /\ audioManagerRef = Null => am' = am
          /\ sessionRef = Null
               => \A a \in Attempts : chan'[a] # chan[a] => ChannelCloses(a)]_vars
  /\ [][\A a \in Attempts :
          (sessionRef = a /\ sessionRef' # a) => chan[a] # "closing"]_vars
  /\ [](\A m \in Attempts : am[m].closes <= 1)

\* C15's case: both channels reported their close to a connect() still
\* waiting, and only one of the two runs of disconnect() found a manager to
\* close: the other ran with nothing held
C15_RanWithNothingHeld ==
  /\ chan[1] = "closed" /\ chan[2] = "closed"
  /\ pc[1] = "awaiting" /\ pc[2] = "awaiting"
  /\ am[1].closes + am[2].closes = 1
  /\ connectionState = "DISCONNECTED"
  /\ sessionRef = Null /\ audioManagerRef = Null

\* C16: the result of a tool call that completes after its session was torn
\* down is discarded: no tool result is sent on a session whose channel has
\* been closed once the state is DISCONNECTED.
C16_LateResultDiscarded ==
  [][\A a \in Attempts : \A i \in Sent(a) :
       outbound'[a][i].type = "tool"
         => ~(connectionState = "DISCONNECTED" /\ chan[a] \in {"closing", "closed"})]_vars

\* attempt a was torn down (its manager is closed) and a later connect() has
\* started
Superseded(a) == am[a].isClosed /\ a < nAttempts

\* C17: the onclose and the onopen of a session that was torn down before a
\* later connect() started leave the state, the session handle and the audio
\* manager of the later attempt as they were.
C17_LateCallbacksIgnored ==
  [][\A a \in Attempts :
       (Superseded(a) /\ (ChannelCloses(a) \/ (~opened[a] /\ opened'[a])))
         => UNCHANGED <<connectionState, sessionRef, audioManagerRef>>]_vars

\* C18: the audio payloads reach the playback scheduler in the order in which
\* their messages were received.
C18_AudioInArrivalOrder ==
  \A m \in Attempts :
    /\ \A i, j \in 1..Len(am[m].decoding) :
         i < j => am[m].decoding[i].msg < am[m].decoding[j].msg
    /\ \A i, j \in 1..Len(am[m].scheduled) :
         i < j => am[m].scheduled[i].msg < am[m].scheduled[j].msg
    /\ \A i \in 1..Len(am[m].scheduled) : \A j \in 1..Len(am[m].decoding) :
         am[m].scheduled[i].msg < am[m].decoding[j].msg

\* the audio of message k has been handed to a playback scheduler
AudioEnqueued(k) ==
  \E m \in Attempts :
    \/ \E i \in 1..Len(am[m].decoding) : am[m].decoding[i].msg = k
    \/ \E i \in 1..Len(am[m].scheduled) : am[m].scheduled[i].msg = k
    \/ am[m].dropped > 0

\* C19: the audio of a message is enqueued without waiting for the tool calls
\* of that message: while one of its calls is still executing, its audio has
\* already been handed to the playback scheduler.
C19_BranchesIndependent ==
  \A k \in 1..Len(msgs) :
    (Running(msgs[k]) # 0 /\ AudioOf(msgs[k].parts) # 0 /\ audioManagerRef # Null)
      => AudioEnqueued(k)

\* the positions of the audio frames in a sequence of sends
MediaEntries(q) == {p \in 1..Len(q) : q[p].type = "media"}

\* C20: the accepted capture blocks go out in the order of their capture, one
\* send each: a captured block adds at most one frame, behind everything its
\* session already holds, nothing a session holds is lost, repeated or
\* reordered when the session handle is resolved, and no block is sent on two
\* sessions.
C20_BlocksInOrder ==
  /\ [](\A a \in Attempts : \A p, q \in MediaEntries(Committed(a)) :
          p < q => Committed(a)[p].block < Committed(a)[q].block)
  /\ [](\A a, b \in Attempts :
          \A p \in MediaEntries(Committed(a)), q \in MediaEntries(Committed(b)) :
            Committed(a)[p].block = Committed(b)[q].block => a = b)
  /\ [](\A a \in Attempts : pc[a] = "resolved" => thenQueue[a] = <<>>)
  /\ [][\A a \in Attempts :
          /\ Len(Committed(a)') >= Len(Committed(a))
          /\ SubSeq(Committed(a)', 1, Len(Committed(a))) = Committed(a)
          /\ \A p \in MediaEntries(Committed(a)') :
               p > Len(Committed(a))
                 => /\ nBlocks' = nBlocks + 1
                    /\ Committed(a)'[p].block = nBlocks'
                    /\ Len(Committed(a)') = Len(Committed(a)) + 1]_vars

\* C20's case: two blocks accepted before the session handle was resolved
\* have been sent, in the order of their capture
C20_EarlyBlocksSent ==
  \E a \in Attempts : \E p, q \in MediaEntries(outbound[a]) :
    /\ p < q
    /\ outbound[a][p].early /\ outbound[a][q].early
    /\ outbound[a][p].block < outbound[a][q].block

\* C21: once close() has run on a manager, the microphone it acquired is
\* released: no stream acquired through it has live tracks and no block
\* callback installed through it is still attached.
C21_MicrophoneReleased ==
  \A a \in Attempts :
    (a \in tracksLive \cup procAttached) => ~am[micMgr[a]].isClosed

\* message k carries inline audio in one of its parts
CarriesAudio(k) == \E p \in 1..Len(msgs[k].parts) : msgs[k].parts[p].audio # 0

\* C25: every part of a message that carries inline audio is enqueued,
\* whatever its position in parts[]: once the handler of a message with an
\* audio part has ended in a connected session, that audio has been handed to
\* the playback scheduler.
C25_EveryPartHandled ==
  \A k \in 1..Len(msgs) :
    (msgs[k].done /\ CarriesAudio(k) /\ connectionState = "CONNECTED")
      => AudioEnqueued(k)

\* C26: a chunk whose decode is pending when close() runs is discarded: on a
\* closed manager the live set stays empty and nextStartTime stays 0.
C26_InFlightDiscarded ==
  \A m \in Attempts :
    am[m].isClosed => (am[m].audioSources = {} /\ am[m].nextStartTime = 0)

\* the nodes manager m has started
Nodes(m) == 1..Len(am[m].scheduled)

\* C27: the live set holds only nodes that were scheduled and not stopped; a
\* node enters it when it is scheduled and leaves it only by ending or by
\* close(); close() stops every node of the live set, empties it and resets
\* nextStartTime to 0; a close() that finds the set empty and the cursor at 0
\* on a closed manager changes nothing.
C27_LiveSet ==
  /\ [](\A m \in Attempts : am[m].audioSources \subseteq Nodes(m) \ am[m].stopped)
  /\ [][\A m \in Attempts :
          /\ am'[m].audioSources \ am[m].audioSources
               = IF Len(am'[m].scheduled) > Len(am[m].scheduled)
                   THEN {Len(am'[m].scheduled)} ELSE {}
          /\ am'[m].closes = am[m].closes
               => /\ am'[m].stopped = am[m].stopped
                  /\ \A n \in am[m].audioSources \ am'[m].audioSources :
                       now >= am[m].scheduled[n].start + am[m].scheduled[n].duration
          /\ am'[m].closes # am[m].closes
               => /\ am'[m].audioSources = {}
                  /\ am'[m].nextStartTime = 0
                  /\ am'[m].stopped = am[m].stopped \cup am[m].audioSources
                  /\ am'[m].scheduled = am[m].scheduled
          /\ (am'[m].closes # am[m].closes /\ am[m].isClosed
                /\ am[m].audioSources = {} /\ am[m].nextStartTime = 0)
               => am'[m] = [am[m] EXCEPT !.closes = @ + 1]]_vars

\* C27's case: close() ran twice; it stopped a node that was playing, while
\* another node had ended by itself before
C27_StoppedAndEnded ==
  \E m \in Attempts :
    /\ am[m].closes >= 2
    /\ am[m].stopped # {}
    /\ Nodes(m) \ (am[m].stopped \cup am[m].audioSources) # {}

\* the positions of the context notifications in a sequence of sends
ContextEntries(q) == {p \in 1..Len(q) : q[p].type = "context"}

\* C28: an onopen that finds an active file sends exactly one notification
\* naming it, and an onopen that finds none sends none: once the onopen
\* handler of an attempt has ended, its session holds one notification if a
\* file is active and none otherwise.
C28_ContextNoticeOnOpen ==
  \A a \in Attempts :
    (opened[a] /\ mic[a] # "pending")
      => Cardinality(ContextEntries(Committed(a))) = IF activeFile THEN 1 ELSE 0

\* the media frames in q that block b produced
FramesOf(q, b) == {p \in MediaEntries(q) : q[p].block = b}

\* C23: for every sensitivity s in [0,1] the gate threshold is
\* 0.001 + (1 - s) * 0.05: it never rises as s rises, it is 0.001 at s = 1 and
\* 0.051 at s = 0 (thousandths and tenths here), and it is the threshold of
\* every block the gate has judged.
C23_ThresholdFormula ==
  /\ \A x \in Sensitivities : 10 * Threshold(x) = 10 + (10 - x) * 50
  /\ \A x, y \in Sensitivities : x <= y => Threshold(y) <= Threshold(x)
  /\ Threshold(10) = 1
  /\ Threshold(0) = 51
  /\ \A a \in Attempts :
       (lastBlock.att = a /\ lastBlock.gated)
         => (FramesOf(Committed(a), lastBlock.block) # {}
               => lastBlock.rms * 10 > 10 + (10 - captured[a]) * 50)

\* a block just above the lowest threshold passed a gate at full sensitivity,
\* and the slider has since been moved to the other end
C23_PassedAtFullSensitivity ==
  \E a \in Attempts :
    /\ lastBlock.att = a /\ lastBlock.gated
    /\ captured[a] = 10 /\ settings = 0
    /\ lastBlock.rms = 2
    /\ FramesOf(Committed(a), lastBlock.block) # {}

\* C29: within one session a capture block produces exactly one outbound frame
\* if and only if its RMS is strictly greater than the threshold, and nothing
\* otherwise; the threshold of every block is the one of the sensitivity at
\* the session's start, whatever the setting has been changed to since.
C29_GateFixedAtStart ==
  [][ /\ \A a \in Attempts :
           /\ (pc[a] = "idle" /\ pc'[a] # "idle") => captured'[a] = settings
           /\ pc[a] # "idle" => captured'[a] = captured[a]
      /\ \A a \in Attempts :
           (nBlocks' = nBlocks + 1 /\ lastBlock'.gated /\ lastBlock'.att = a) =>
             LET n == IF lastBlock'.rms > Threshold(captured[a]) THEN 1 ELSE 0
             IN  /\ Cardinality(FramesOf(Committed(a)', nBlocks + 1)) = n
                 /\ Len(Committed(a)') = Len(Committed(a)) + n
                 /\ \A b \in Attempts \ {a} : Committed(b)' = Committed(b) ]_vars

\* the slider was moved after the session began, and the last block, lying
\* between the two thresholds, was judged by the one of the session's start
C29_JudgedByStartSetting ==
  \E a \in Attempts :
    /\ lastBlock.att = a /\ lastBlock.gated
    /\ settings > captured[a]
    /\ lastBlock.rms > Threshold(settings) /\ lastBlock.rms <= Threshold(captured[a])
    /\ FramesOf(Committed(a), lastBlock.block) = {}
    /\ MediaEntries(Committed(a)) # {}
\* the call of generate_video has returned what its body returned
VideoReturned ==
  /\ tool.name = "generate_video"
  /\ tool.phase = "returned"
  /\ tool.result # ToolCatch.value.text

\* C22 (amended): if generate_video's operation reports not-done on its first
\* n status checks and done on the next one, the loop performs exactly n+1
\* status checks (three for not-done, not-done, done) and n requests for the
\* operation's state, makes none after done is reported, and is then left;
\* the call emits exactly one item of type video when the operation carries
\* an asset URI and the download of the asset succeeds, and none when the
\* operation carries no URI or a request of the call fails.
C22_PollUntilDone ==
  tool.name = "generate_video" =>
    /\ \A i \in 1..(Len(tool.seen) - 1) : ~tool.seen[i]
    /\ tool.checks = Len(tool.seen)
    /\ tool.phase = "poll" => tool.polls = Len(tool.seen)
    /\ (tool.phase \in {"sleep", "fetch"} \/ VideoReturned)
         => tool.polls = Len(tool.seen) - 1
    /\ (tool.seen # <<>> /\ tool.seen[Len(tool.seen)]) => tool.phase \in {"fetch", "returned"}
    /\ VideoReturned =>
         /\ tool.seen # <<>> /\ tool.seen[Len(tool.seen)]
         /\ tool.media = IF tool.operation.uri THEN <<"video">> ELSE <<>>
    /\ (tool.phase = "returned" /\ ~VideoReturned) => tool.media = <<>>
    /\ tool.phase # "returned" => tool.media = <<>>

\* not-done, not-done, done: three checks, and one video
C22_ThreeChecksOneVideo ==
  /\ VideoReturned
  /\ tool.seen = <<FALSE, FALSE, TRUE>>
  /\ tool.checks = 3
  /\ tool.media = <<"video">>

\* C22 as stated: whenever the finished operation carries an asset URI, the
\* call emits exactly one item of type video.
C22_OneVideoWhenUri ==
  (tool.name = "generate_video" /\ tool.phase = "returned" /\ tool.operation.done
     /\ tool.operation.uri) => tool.media = <<"video">>

\* C30: the aspect ratio passed to the image-generation request is always a
\* member of the enum {1:1, 3:4, 4:3, 9:16, 16:9}; a value outside the enum is
\* not forwarded, and a missing value defaults to 16:9.
C30_AspectRatioInEnum ==
  tool.name = "generate_image" =>
    /\ tool.request \in AspectRatios
    /\ tool.aspect = "" => tool.request = "16:9"
\* the distance of two samples, in grains
Apart(x, y) == IF x >= y THEN x - y ELSE y - x

\* C24: for any sample sequence x with values in [-1,1],
\* decode(frame(encode(x))) has the length of x and each of its samples is
\* less than 2/32768 away from that of x; the int16 sequence recovered from
\* the base64 text is the encoded int16 sequence.
C24_RoundTrip ==
  codec.phase = "decoded" =>
    /\ Len(codec.output) = Len(codec.input)
    /\ codec.recovered = codec.pcm
    /\ \A i \in 1..Len(codec.input) :
         (codec.input[i] >= -Grain /\ codec.input[i] <= Grain)
           => Apart(codec.input[i], codec.output[i]) * FullScale < 2 * Grain

\* a block of a small negative sample and of 1.0 came back changed, within
\* the error allowed
C24_QuantizedBlock ==
  /\ codec.phase = "decoded"
  /\ codec.input = <<-3, Grain>>
  /\ codec.pcm = <<-1, PositiveScale>>
  /\ codec.output = <<-2, Grain - 2>>
\* a call of connect() has not returned yet
ConnectInProgress == \E a \in Attempts : pc[a] \in {"awaiting", "catching"}

\* C34: whenever the session state is DISCONNECTED and no connect attempt is
\* in progress, the orchestrator holds no session handle and no audio manager;
\* whenever the state is CONNECTED, it holds an audio manager that has not
\* been closed.
C34_RefsMatchState ==
  /\ (connectionState = "DISCONNECTED" /\ ~ConnectInProgress)
       => (sessionRef = Null /\ audioManagerRef = Null)
  /\ connectionState = "CONNECTED"
       => (audioManagerRef # Null /\ ~am[audioManagerRef].isClosed)
\* C35: tool calls that arrive in different inbound messages run
\* concurrently: the handling of a message starts when it arrives, whatever
\* calls of earlier messages are still executing (its first call is
\* dispatched, or, without calls, its audio and text are handled), and every
\* tool result, in whatever order the results are sent, carries the id and
\* name of its own call.
C35_MessagesConcurrent ==
  /\ \A k \in 1..Len(msgs) :
       IF msgs[k].calls = <<>> THEN msgs[k].done
                               ELSE msgs[k].calls[1].status # "pending"
  /\ \A a \in Attempts : \A p \in ToolEntries(Committed(a)) :
       Cardinality({c \in Received : /\ CallAt(c).id = Committed(a)[p].id
                                     /\ CallAt(c).name = Committed(a)[p].name
                                     /\ msgs[c[1]].att = a}) = 1

\* the call of the second message has been answered while the first call of
\* the first message is still executing
C35_LaterAnsweredFirst ==
  /\ Len(msgs) = 2
  /\ msgs[1].calls # <<>> /\ msgs[1].calls[1].status = "running"
  /\ msgs[2].calls # <<>> /\ msgs[2].done
  /\ \E p \in ToolEntries(outbound[msgs[2].att]) :
       outbound[msgs[2].att][p].id = msgs[2].calls[1].id
  /\ ToolEntries(Committed(msgs[1].att)) = ToolEntries(outbound[msgs[2].att])
\* the received calls whose name no case of the switch matches
UnknownCalls == {c \in Received : CallAt(c).name \notin DeclaredTools}

\* the tool results sent for call c
AnswersTo(c) ==
  {p \in ToolEntries(Committed(msgs[c[1]].att)) :
     Committed(msgs[c[1]].att)[p].id = CallAt(c).id}

\* C33: a tool call whose name is not a declared capability returns the
\* neutral 'Function not found' result: it is answered with exactly one normal
\* tool result for its id, it fails nothing and emits no media item, the call
\* after it in the message is dispatched, and when the last call of the
\* message has been answered the audio and the text the handler reads from
\* the message are handled as for any other message.
C33_UnknownToolNeutral ==
  /\ [](\A c \in UnknownCalls :
          /\ ~CallAt(c).threw /\ ~CallAt(c).failed /\ CallAt(c).media = 0
          /\ Cardinality(AnswersTo(c)) = IF CallAt(c).status = "done" THEN 1 ELSE 0
          /\ \A p \in AnswersTo(c) :
               /\ Committed(msgs[c[1]].att)[p].name = CallAt(c).name
               /\ Committed(msgs[c[1]].att)[p].response
                    = [kind |-> "result", text |-> "Function not found"])
  /\ [](\A c \in UnknownCalls : \A d \in Received :
          (c[1] = d[1] /\ d[2] = c[2] + 1 /\ CallAt(c).status = "done")
            => CallAt(d).status \in {"running", "done"})
  /\ [][\A c \in UnknownCalls :
          (~msgs[c[1]].done /\ msgs'[c[1]].done) =>
            /\ (AudioOf(msgs[c[1]].parts) # 0 /\ audioManagerRef # Null) =>
                  /\ Len(am'[audioManagerRef].decoding)
                       = Len(am[audioManagerRef].decoding) + 1
                  /\ am'[audioManagerRef].decoding[Len(am'[audioManagerRef].decoding)].msg
                       = c[1]
            /\ TextOf(msgs[c[1]].parts) => lastLog' = "transcript"]_vars

\* an unknown call was answered, the call after it was answered too, and the
\* audio and the text of their message were handled
C33_UnknownThenRest ==
  \E c \in UnknownCalls : \E d \in Received :
    /\ c[1] = d[1] /\ d[2] = c[2] + 1
    /\ CallAt(d).status = "done" /\ AnswersTo(c) # {} /\ AnswersTo(d) # {}
    /\ msgs[c[1]].done
    /\ \E m \in Attempts : \E i \in 1..Len(am[m].decoding) : am[m].decoding[i].msg = c[1]
    /\ lastLog = "transcript"
\* the call of read_active_file has returned
FileRead == tool.name = "read_active_file" /\ tool.phase = "returned"

\* C31: read_active_file returns the whole file content when its length is at
\* most 50000 characters, and otherwise exactly the first 50000 characters
\* followed by the truncation marker; with no active file it returns the
\* normal 'no file uploaded' result; the file itself is left as it was.
C31_ReadTruncates ==
  /\ [](FileRead =>
          IF ~tool.file.present
            THEN tool.result = "No file is currently uploaded" /\ tool.content = <<>>
            ELSE IF Length(tool.file.content) <= MaxFileChars
              THEN tool.content = tool.file.content
              ELSE /\ Length(tool.content) = MaxFileChars + Length(TruncationMarker)
                   /\ \A i \in 1..MaxFileChars :
                        CharAt(tool.content, i) = CharAt(tool.file.content, i)
                   /\ \A j \in 1..Length(TruncationMarker) :
                        CharAt(tool.content, MaxFileChars + j) = CharAt(TruncationMarker, j))
  /\ [](tool.file.present = (activeFile /\ tool.phase # "none"))
  /\ [][activeFile' = activeFile /\ (tool'.n = tool.n => tool'.file = tool.file)]_vars

\* a file one character too long was read: the last character is gone and
\* the marker is there
C31_CutByOne ==
  /\ FileRead
  /\ Length(tool.file.content) = MaxFileChars + 1
  /\ CharAt(tool.content, MaxFileChars) = "b"
  /\ CharAt(tool.content, MaxFileChars + 1) = "."

\* `url` begins with a scheme
HasScheme(url) ==
  StartsWith(url, Https) \/ StartsWith(url, Http \o <<":", "/", "/">>)

\* C32: open_website always acts on a URL that begins with a scheme: an
\* argument that does not start with 'http' is opened as 'https://' followed
\* by the argument, one that does is opened unchanged, and the result names
\* the URL opened.
C32_UrlHasScheme ==
  (tool.name = "open_website" /\ tool.phase = "returned") =>
    /\ HasScheme(tool.opened)
    /\ tool.opened = IF StartsWith(tool.url, Http) THEN tool.url ELSE Https \o tool.url
    /\ tool.named = tool.opened
====
